---- MODULE Spec2Model ----
(***************************************************************************)
(* The crafting claim engine of oe-overlay (src/app/routers/crafting.py)   *)
(* over its two tables (src/app/models.py), with every handler running in  *)
(* its own database transaction (src/app/database.py, get_session).        *)
(*                                                                         *)
(* The database is PostgreSQL (models.py uses its JSONB and ARRAY types)   *)
(* at its default isolation level, READ COMMITTED: every statement reads   *)
(* the rows committed when it starts; SELECT ... FOR UPDATE and UPDATE     *)
(* take the row's lock, wait while another transaction holds it, and then  *)
(* act on the row as last committed.  A transaction's own writes become    *)
(* visible to the others when it commits, and its locks are released when  *)
(* it commits or rolls back.                                               *)
(*                                                                         *)
(* A handler is a sequence of steps, one per statement that reads the      *)
(* database; its flush and the commit of get_session are one step, since   *)
(* no other transaction can see or overwrite a flushed row before the      *)
(* commit.  The ORM emits an UPDATE only for the attributes whose value    *)
(* differs from the value it loaded.                                       *)
(*                                                                         *)
(* Callers are principals already authenticated by auth.get_current_user   *)
(* and are identified by their user id.                                    *)
(***************************************************************************)
EXTENDS Integers, Sequences, FiniteSets, TLC

\* Bounds of the model.
MaxTasks == 2
MaxRequests == 1
MaxTime == 2

Tasks == 1..MaxTasks
NoTask == 0
Users == {"u1", "u2", "u3"}
RequestIds == 1..MaxRequests
Times == 1..MaxTime
NoEst == 0
Space == " "
Locations == {<< >>, <<Space>>, <<Space, "T">>}
Ops == {"accept", "complete", "cancel"}

VARIABLES
    requests,      \* table craft_requests: row id |-> [requester_id, status]
    assignments,   \* table craft_assignments: a set of rows
    lock,          \* row lock of each craft_requests row: the task holding it
    tasks,         \* the in-flight calls, one per task
    accepted_log,  \* history: the requests some accept has succeeded on
    unclaimed_log  \* history: the requests cancelled while they had no assignment

vars == <<requests, assignments, lock, tasks, accepted_log, unclaimed_log>>

RECURSIVE lstrip(_)
lstrip(s) ==
    IF s # << >> /\ Head(s) = Space THEN lstrip(Tail(s)) ELSE s

RECURSIVE rstrip(_)
rstrip(s) ==
    IF s # << >> /\ s[Len(s)] = Space THEN rstrip(SubSeq(s, 1, Len(s) - 1)) ELSE s

\* str.strip()
strip(s) == rstrip(lstrip(s))

\* The rows of craft_assignments, whatever their request.
AssignmentsOfAny(r) == assignments

\* The rows of craft_assignments that belong to request r.
AssignmentsOf(r) == {a \in assignments : a.request_id = r}

\* The object a one-to-one relationship loads from a set of rows.
TheAssignment(rows) == CHOOSE a \in rows : \A b \in rows : a.id <= b.id

IdleTask ==
    [pc |-> "idle", op |-> "accept", user |-> "u1", rid |-> 1, loc |-> << >>,
     st |-> "none", owner |-> "u1", asg |-> {}, now |-> NoEst,
     res |-> "none", open0 |-> FALSE, intf |-> {}]

Init ==
    /\ requests = << >>
    /\ assignments = {}
    /\ lock = [r \in RequestIds |-> NoTask]
    /\ tasks = [t \in Tasks |-> IdleTask]
    /\ accepted_log = {}
    /\ unclaimed_log = {}

\* The session of task t is closed with result res.
Finished(t, result) ==
    [tasks[t] EXCEPT !.pc = "done", !.res = result, !.asg = {}]

\* Task d has committed a change to request r: the accept calls on r that
\* are in flight or not yet returned record it.
Noted(tk, d, r) ==
    [t \in Tasks |->
        IF t # d /\ tk[t].pc # "idle" /\ tk[t].op = "accept" /\ tk[t].rid = r
        THEN [tk[t] EXCEPT !.intf = @ \cup {d}]
        ELSE tk[t]]

\* accept_request's checks of the status it read and of payload.location;
\* "none" when the call goes on to insert the assignment.
accept_error_unchecked(st, l) ==
    IF strip(l) = << >> THEN "validation" ELSE "none"

accept_error_location_first(st, l) ==
    IF strip(l) = << >> THEN "validation"
    ELSE IF st # "open" THEN "conflict"
    ELSE "none"

accept_error_unstripped(st, l) ==
    IF st # "open" THEN "conflict"
    ELSE IF l = << >> THEN "validation"
    ELSE "none"

accept_error(st, l) ==
    IF st # "open" THEN "conflict"
    ELSE IF strip(l) = << >> THEN "validation"
    ELSE "none"

\* complete_request's checks of the assignment it loaded and of the caller.
complete_error_caller_first(rows, owner, u) ==
    IF owner # u /\ \A a \in rows : a.crafter_id # u THEN "forbidden"
    ELSE IF rows = {} THEN "validation"
    ELSE "none"

complete_error(rows, owner, u) ==
    IF rows = {} THEN "validation"
    ELSE IF TheAssignment(rows).crafter_id # u /\ owner # u THEN "forbidden"
    ELSE "none"

\* cancel_request's set of the users who may cancel.
authorised_anyone(rows, owner) == Users

authorised(rows, owner) == {owner} \cup {a.crafter_id : a \in rows}

\* complete_request: assignment.estimated_completion or _now()
backfill(est, n) == IF est # NoEst THEN est ELSE n

\* POST /crafting/requests
create_request(u) ==
    /\ Len(requests) < MaxRequests
    /\ requests' = Append(requests, [requester_id |-> u, status |-> "open"])
    /\ UNCHANGED <<assignments, lock, tasks, accepted_log, unclaimed_log>>

\* A call to accept, complete or cancel of request id r arrives and is given
\* a session.  The caller and the payload are drawn where the handler first
\* reads them.
Invoke(t, o, r) ==
    /\ tasks[t].pc = "idle"
    /\ tasks' = [tasks EXCEPT ![t] =
            [IdleTask EXCEPT !.pc = "start", !.op = o, !.rid = r,
                             !.open0 = /\ o = "accept"
                                       /\ r <= Len(requests)
                                       /\ requests[r].status = "open"]]
    /\ UNCHANGED <<requests, assignments, lock, accepted_log, unclaimed_log>>

\* accept_request reading the request row with no FOR UPDATE.
accept_select_unlocked(t) ==
    /\ tasks[t].pc = "start"
    /\ tasks[t].op = "accept"
    /\ LET r == tasks[t].rid IN
        IF r > Len(requests)
        THEN tasks' = [tasks EXCEPT ![t] = Finished(t, "not_found")]
        ELSE tasks' = [tasks EXCEPT ![t] =
                [@ EXCEPT !.pc = "locked", !.st = requests[r].status]]
    /\ UNCHANGED <<requests, assignments, lock, accepted_log, unclaimed_log>>

\* accept_request taking a lock that does not exclude other holders.
accept_select_shared(t) ==
    /\ tasks[t].pc = "start"
    /\ tasks[t].op = "accept"
    /\ LET r == tasks[t].rid IN
        IF r > Len(requests)
        THEN /\ tasks' = [tasks EXCEPT ![t] = Finished(t, "not_found")]
             /\ UNCHANGED lock
        ELSE /\ lock' = [lock EXCEPT ![r] = t]
             /\ tasks' = [tasks EXCEPT ![t] =
                    [@ EXCEPT !.pc = "locked", !.st = requests[r].status]]
    /\ UNCHANGED <<requests, assignments, accepted_log, unclaimed_log>>

\* accept_request: SELECT ... FOR UPDATE of the request row.
accept_select(t) ==
    /\ tasks[t].pc = "start"
    /\ tasks[t].op = "accept"
    /\ LET r == tasks[t].rid IN
        IF r > Len(requests)
        THEN /\ tasks' = [tasks EXCEPT ![t] = Finished(t, "not_found")]
             /\ UNCHANGED lock
        ELSE /\ lock[r] = NoTask
             /\ lock' = [lock EXCEPT ![r] = t]
             /\ tasks' = [tasks EXCEPT ![t] =
                    [@ EXCEPT !.pc = "locked", !.st = requests[r].status]]
    /\ UNCHANGED <<requests, assignments, accepted_log, unclaimed_log>>

\* accept_request leaving the row locked when it raises.
accept_request_lock_kept(t, u, l, e) ==
    /\ tasks[t].pc = "locked"
    /\ LET r == tasks[t].rid
           row == [id |-> Cardinality(assignments) + 1, request_id |-> r,
                   crafter_id |-> u, location |-> strip(l),
                   estimated_completion |-> e, status |-> "accepted"]
           end(result) == [Finished(t, result) EXCEPT !.user = u, !.loc = l]
       IN
        /\ lock' = IF accept_error(tasks[t].st, l) # "none" THEN lock
                    ELSE [lock EXCEPT ![r] = NoTask]
        /\ IF accept_error(tasks[t].st, l) # "none"
           THEN /\ tasks' = [tasks EXCEPT ![t] = end(accept_error(tasks[t].st, l))]
                /\ UNCHANGED <<requests, assignments, accepted_log, unclaimed_log>>
           ELSE IF AssignmentsOf(r) # {}
           THEN \* craft_assignments.request_id is unique: the insert fails
                /\ tasks' = [tasks EXCEPT ![t] = end("integrity")]
                /\ UNCHANGED <<requests, assignments, accepted_log, unclaimed_log>>
           ELSE /\ requests' = [requests EXCEPT ![r].status = "accepted"]
                /\ assignments' = assignments \cup {row}
                /\ accepted_log' = accepted_log \cup {r}
                /\ UNCHANGED unclaimed_log
                /\ tasks' = Noted([tasks EXCEPT ![t] = end("ok")], t, r)

\* accept_request after the select, called by user u with payload location l
\* and estimated_completion e: the checks, the insert, the commit.
accept_request(t, u, l, e) ==
    /\ tasks[t].pc = "locked"
    /\ LET r == tasks[t].rid
           row == [id |-> Cardinality(assignments) + 1, request_id |-> r,
                   crafter_id |-> u, location |-> strip(l),
                   estimated_completion |-> e, status |-> "accepted"]
           end(result) == [Finished(t, result) EXCEPT !.user = u, !.loc = l]
       IN
        /\ lock' = [lock EXCEPT ![r] = NoTask]
        /\ IF accept_error(tasks[t].st, l) # "none"
           THEN /\ tasks' = [tasks EXCEPT ![t] = end(accept_error(tasks[t].st, l))]
                /\ UNCHANGED <<requests, assignments, accepted_log, unclaimed_log>>
           ELSE IF AssignmentsOf(r) # {}
           THEN \* craft_assignments.request_id is unique: the insert fails
                /\ tasks' = [tasks EXCEPT ![t] = end("integrity")]
                /\ UNCHANGED <<requests, assignments, accepted_log, unclaimed_log>>
           ELSE /\ requests' = [requests EXCEPT ![r].status = "accepted"]
                /\ assignments' = assignments \cup {row}
                /\ accepted_log' = accepted_log \cup {r}
                /\ UNCHANGED unclaimed_log
                /\ tasks' = Noted([tasks EXCEPT ![t] = end("ok")], t, r)

\* _get_request_or_404: the SELECT of the request row.
select_request(t) ==
    /\ tasks[t].pc = "start"
    /\ tasks[t].op \in {"complete", "cancel"}
    /\ LET r == tasks[t].rid IN
        IF r > Len(requests)
        THEN tasks' = [tasks EXCEPT ![t] = Finished(t, "not_found")]
        ELSE tasks' = [tasks EXCEPT ![t] =
                [@ EXCEPT !.pc = "selected", !.st = requests[r].status,
                          !.owner = requests[r].requester_id]]
    /\ UNCHANGED <<requests, assignments, lock, accepted_log, unclaimed_log>>

\* _get_request_or_404: the SELECT of selectinload(CraftRequest.assignment).
load_assignment(t) ==
    /\ tasks[t].pc = "selected"
    /\ tasks' = [tasks EXCEPT ![t] =
            [@ EXCEPT !.pc = "loaded", !.asg = AssignmentsOf(tasks[t].rid)]]
    /\ UNCHANGED <<requests, assignments, lock, accepted_log, unclaimed_log>>

\* complete_request after _get_request_or_404, called by user u when _now()
\* is n: the checks, the flush, the commit.
complete_request(t, u, n) ==
    /\ tasks[t].pc = "loaded"
    /\ tasks[t].op = "complete"
    /\ LET r == tasks[t].rid
           end(result) == [Finished(t, result) EXCEPT !.user = u]
       IN
        IF complete_error(tasks[t].asg, tasks[t].owner, u) # "none"
        THEN /\ tasks' = [tasks EXCEPT ![t] =
                    end(complete_error(tasks[t].asg, tasks[t].owner, u))]
             /\ UNCHANGED <<requests, assignments, lock, accepted_log, unclaimed_log>>
        ELSE LET a == TheAssignment(tasks[t].asg) IN
             /\ tasks[t].st # "completed" => lock[r] = NoTask
             /\ requests' =
                    IF tasks[t].st # "completed"
                    THEN [requests EXCEPT ![r].status = "completed"]
                    ELSE requests
             /\ assignments' =
                    {IF b.id # a.id THEN b
                     ELSE [b EXCEPT
                        !.status = IF a.status # "fulfilled" THEN "fulfilled" ELSE @,
                        !.estimated_completion =
                            IF backfill(a.estimated_completion, n) # a.estimated_completion
                            THEN backfill(a.estimated_completion, n) ELSE @]
                     : b \in assignments}
             /\ tasks' = Noted([tasks EXCEPT ![t] =
                    [end("ok") EXCEPT !.now =
                        IF a.estimated_completion = NoEst THEN n ELSE NoEst]],
                    t, r)
             /\ UNCHANGED <<lock, accepted_log, unclaimed_log>>

\* cancel_request writing the status before its check of the caller, with
\* no rollback when the check fails.
cancel_request_unrolled(t, u) ==
    /\ tasks[t].pc = "loaded"
    /\ tasks[t].op = "cancel"
    /\ LET r == tasks[t].rid
           end(result) == [Finished(t, result) EXCEPT !.user = u]
       IN
        IF u \notin authorised(tasks[t].asg, tasks[t].owner)
        THEN /\ tasks' = [tasks EXCEPT ![t] = end("forbidden")]
             /\ requests' = [requests EXCEPT ![r].status = "cancelled"]
             /\ UNCHANGED <<assignments, lock, accepted_log, unclaimed_log>>
        ELSE /\ tasks[t].st # "cancelled" => lock[r] = NoTask
             /\ requests' =
                    IF tasks[t].st # "cancelled"
                    THEN [requests EXCEPT ![r].status = "cancelled"]
                    ELSE requests
             /\ assignments' =
                    IF tasks[t].asg = {} THEN assignments
                    ELSE LET a == TheAssignment(tasks[t].asg) IN
                        {IF b.id = a.id /\ a.status # "cancelled"
                         THEN [b EXCEPT !.status = "cancelled"] ELSE b
                         : b \in assignments}
             /\ unclaimed_log' =
                    IF AssignmentsOf(r) = {} THEN unclaimed_log \cup {r}
                    ELSE unclaimed_log
             /\ tasks' = Noted([tasks EXCEPT ![t] = end("ok")], t, r)
             /\ UNCHANGED <<lock, accepted_log>>

\* cancel_request after _get_request_or_404, called by user u: the checks,
\* the flush, the commit.
cancel_request(t, u) ==
    /\ tasks[t].pc = "loaded"
    /\ tasks[t].op = "cancel"
    /\ LET r == tasks[t].rid
           end(result) == [Finished(t, result) EXCEPT !.user = u]
       IN
        IF u \notin authorised(tasks[t].asg, tasks[t].owner)
        THEN /\ tasks' = [tasks EXCEPT ![t] = end("forbidden")]
             /\ UNCHANGED <<requests, assignments, lock, accepted_log, unclaimed_log>>
        ELSE /\ tasks[t].st # "cancelled" => lock[r] = NoTask
             /\ requests' =
                    IF tasks[t].st # "cancelled"
                    THEN [requests EXCEPT ![r].status = "cancelled"]
                    ELSE requests
             /\ assignments' =
                    IF tasks[t].asg = {} THEN assignments
                    ELSE LET a == TheAssignment(tasks[t].asg) IN
                        {IF b.id = a.id /\ a.status # "cancelled"
                         THEN [b EXCEPT !.status = "cancelled"] ELSE b
                         : b \in assignments}
             /\ unclaimed_log' =
                    IF AssignmentsOf(r) = {} THEN unclaimed_log \cup {r}
                    ELSE unclaimed_log
             /\ tasks' = Noted([tasks EXCEPT ![t] = end("ok")], t, r)
             /\ UNCHANGED <<lock, accepted_log>>

\* The response of a finished call is delivered; the task can take a new call.
Return(t) ==
    /\ tasks[t].pc = "done"
    /\ tasks' = [tasks EXCEPT ![t] = IdleTask]
    /\ UNCHANGED <<requests, assignments, lock, accepted_log, unclaimed_log>>

-----------------------------------------------------------------------------
(***************************************************************************)
(* Authentication (src/app/auth.py, src/app/config.py) and the event       *)
(* attendance engine (src/app/routers/events.py).                          *)
(*                                                                         *)
(* The settings are read from the environment once per process             *)
(* (config.get_settings is cached), so the guild allow-list and the        *)
(* configured event roles change only when the service is redeployed with  *)
(* another environment; tokens signed with the same key outlive that.      *)
(*                                                                         *)
(* Text is a sequence of characters wherever the code strips or parses it; *)
(* an environment value is the sequence of the chunks between its commas,  *)
(* << >> when the variable is unset or empty.  The clock counts ticks of   *)
(* 1/TicksPerSecond second, and a minute of jwt_expire_minutes is            *)
(* abbreviated to one second.                                              *)
(* jose's jwt.encode stores "exp" as whole seconds since the epoch, and    *)
(* jwt.decode raises ExpiredSignatureError (a JWTError) when that number   *)
(* is less than the current whole second.                                  *)
(*                                                                         *)
(* events rows are never updated or deleted, so _get_event_or_404 (the     *)
(* select of the row and the selectin load of its attendees) is one step;  *)
(* the dependency get_current_user and the handler's code up to its first  *)
(* statement run without yielding and belong to the handler's first step.  *)
(* session.refresh(event) re-reads the row with the loader options it was  *)
(* loaded with, the attendees included.                                    *)
(***************************************************************************)

\* Bounds of the model.
MaxCalls == 2
MaxEvents == 1
MaxAttendees == 2
MaxTokens == 1
MaxClock == 4
TicksPerSecond == 2

\* config.py: the guild allowed when DISCORD_GUILD_IDS yields none
\* (1119640635817853028 in the source, abbreviated), and the token lifetime.
DefaultGuild == 1
jwt_expire_minutes == 1

Calls == 1..MaxCalls
EventIds == 1..MaxEvents
Members == {"u1", "u2"}
R1 == <<"R", "1">>
R2 == <<"R", "2">>
RoleLists == {<< >>, <<R1>>, <<R2>>}
NoGuild == "None"
jwt_secret_key == "JWT_SECRET_KEY"

\* Values of DISCORD_GUILD_IDS ("", "1, 2", "2,x") and DISCORD_EVENT_ROLE_IDS
\* ("", " R1").
GuildEnvs == {<< >>, <<(<<"1">>), <<Space, "2">>>>, <<(<<"2">>), <<"x">>>>}
RoleEnvs == {<< >>, <<(<<Space, "R", "1">>)>>}

\* What Discord answers: the caller's guilds (ids are strings in its JSON)
\* and, for each guild, the member's roles or a failure.
UpstreamGuilds ==
    {<<(<<"3">>)>>, <<(<<"1">>), <<"2">>>>, <<(<<"2">>), <<"1">>>>}
Failed == "Failed"
MemberResponses == {Failed, <<R1>>, <<R2>>}
DiscordGuilds == {1, 2, 3}
\* One answer per guild. Guild 3 is on no allow-list of GuildEnvs, so the
\* service never asks for the member there.
MemberLookups == {m \in [DiscordGuilds -> MemberResponses] : m[3] = Failed}

VARIABLES
    settings,      \* the environment of the running service
    clock,         \* the current time, in ticks
    issued,        \* history: the tokens minted so far, each with its time of issue
    refused_log,   \* history: the users the login callback has refused
    events,        \* table events: row id |-> [created_by, guild_id, required_role_ids]
    created_log,   \* history: for each event, what get_current_user gave its creator
    attendees,     \* table event_attendees: a set of rows
    attendee_seq,  \* the sequence behind event_attendees.id
    calls          \* the in-flight calls on /events, one per caller slot

evars ==
    <<settings, clock, issued, refused_log, events, created_log, attendees,
      attendee_seq, calls>>

Range(s) == {s[i] : i \in DOMAIN s}

\* dict.get(key, default)
get(d, key, default) == IF key \in DOMAIN d THEN d[key] ELSE default

\* str(n) of an integer, and str(x).isdigit()-like parsing for int(text).
str(n) == ToString(n)
Digits == <<"0", "1", "2", "3", "4", "5", "6", "7", "8", "9">>
DigitOf(c) == {d \in 0..9 : Digits[d + 1] = c}
ParsesAsInt(s) == s # << >> /\ \A i \in DOMAIN s : DigitOf(s[i]) # {}

RECURSIVE int(_)
int(s) ==
    IF s = << >> THEN 0
    ELSE 10 * int(SubSeq(s, 1, Len(s) - 1)) + (CHOOSE d \in DigitOf(s[Len(s)]) : TRUE)

\* Settings.discord_allowed_guild_ids: the chunks that parse as integers,
\* the default guild when there is none.
RECURSIVE chunk_values(_)
chunk_values(raw) ==
    IF raw = << >> THEN << >>
    ELSE LET chunk == strip(Head(raw))
         IN  IF chunk # << >> /\ ParsesAsInt(chunk)
                THEN <<int(chunk)>> \o chunk_values(Tail(raw))
                ELSE chunk_values(Tail(raw))

discord_allowed_guild_ids(raw) ==
    IF raw = << >> THEN <<DefaultGuild>>
    ELSE IF chunk_values(raw) # << >> THEN chunk_values(raw) ELSE <<DefaultGuild>>

\* Settings.discord_event_role_ids: the stripped non-empty chunks.
RECURSIVE discord_event_role_ids(_)
discord_event_role_ids(raw) ==
    IF raw = << >> THEN << >>
    ELSE IF strip(Head(raw)) # << >>
            THEN <<strip(Head(raw))>> \o discord_event_role_ids(Tail(raw))
            ELSE discord_event_role_ids(Tail(raw))

allowed_guild_ids == discord_allowed_guild_ids(settings.DISCORD_GUILD_IDS)
event_role_ids == discord_event_role_ids(settings.DISCORD_EVENT_ROLE_IDS)

\* schemas.DiscordUser as Discord returns it for the user id.
discord_user(u) ==
    [id |-> u, username |-> IF u = "u1" THEN "ann" ELSE "bob", discriminator |-> "0001"]

\* auth._fetch_guild_ids
fetch_guild_ids(guilds) == [i \in DOMAIN guilds |-> int(guilds[i])]

\* [x for x in s if x in keep]
restrict_nothing(s, keep) == s

RECURSIVE restrict(_, _)
restrict(s, keep) ==
    IF s = << >> THEN << >>
    ELSE IF Head(s) \in keep THEN <<Head(s)>> \o restrict(Tail(s), keep)
         ELSE restrict(Tail(s), keep)

\* auth._fetch_member_roles: the roles of the guilds whose lookup succeeded,
\* keyed by str(guild id).
fetch_member_roles_unchecked(guild_ids, member) ==
    [k \in {str(g) : g \in Range(guild_ids)} |->
        LET roles == member[CHOOSE g \in Range(guild_ids) : str(g) = k]
        IN  IF roles = Failed THEN << >> ELSE roles]

fetch_member_roles(guild_ids, member) ==
    [k \in {str(g) : g \in {h \in Range(guild_ids) : member[h] # Failed}} |->
        member[CHOOSE g \in Range(guild_ids) : str(g) = k]]

\* auth.discord_callback, lines 87-94.
capability_always(guild_roles, required) == TRUE

capability(guild_roles, required) ==
    IF required # << >>
        THEN \E k \in DOMAIN guild_roles :
                \E role_id \in Range(guild_roles[k]) : role_id \in Range(required)
        ELSE TRUE

\* calendar.timegm of a moment: whole seconds.
timegm(t) == t \div TicksPerSecond

\* The HS256 signature of a claims set under a key: equal exactly when both are.
hmac(key, claims) == <<key, claims>>

\* jose.jwt.encode: "exp" becomes whole seconds, the claims are signed.
encode(payload, key) ==
    LET claims == [payload EXCEPT !.exp = timegm(payload.exp)]
    IN  [claims |-> claims, signature |-> hmac(key, claims)]

\* jose.jwt.decode: the signature, then "exp" against the current second.
decode(token, key, now) ==
    IF token.signature # hmac(key, token.claims) THEN [error |-> "JWTError"]
    ELSE IF token.claims.exp < timegm(now) THEN [error |-> "ExpiredSignatureError"]
    ELSE [error |-> "", payload |-> token.claims]

\* auth.create_access_token at time now.
expires_delta == jwt_expire_minutes * TicksPerSecond

create_access_token(user, now) ==
    encode([sub |-> user.id,
            username |-> user.username,
            discriminator |-> user.discriminator,
            guild_ids |-> user.guild_ids,
            guild_roles |-> user.guild_roles,
            can_create_events |-> user.can_create_events,
            exp |-> now + expires_delta,
            iss |-> "oe-overlay-service"],
           jwt_secret_key)

Bearer(token) == [scheme |-> "bearer", credentials |-> token]
NoBearer == [scheme |-> "none"]

\* A token nobody minted: claims of the caller's choosing under another key.
ForgedTokens ==
    {encode([sub |-> "u2", username |-> "bob", discriminator |-> "0001",
             guild_ids |-> <<DefaultGuild>>, guild_roles |-> << >>,
             can_create_events |-> TRUE, exp |-> MaxClock + expires_delta,
             iss |-> "oe-overlay-service"], "guess")}

\* auth.get_current_user at time now: the principal, or the error raised.
guild_allowed_any(guild_ids) == TRUE

guild_allowed(guild_ids) ==
    \E gid \in Range(guild_ids) : gid \in Range(allowed_guild_ids)

get_current_user(credentials, now) ==
    IF credentials.scheme # "bearer" THEN [status |-> "unauthenticated"]
    ELSE LET decoded == decode(credentials.credentials, jwt_secret_key, now)
         IN  IF decoded.error # "" THEN [status |-> "unauthenticated"]
             ELSE IF ~guild_allowed(decoded.payload.guild_ids)
                     THEN [status |-> "forbidden"]
             ELSE [status |-> "ok",
                   user |-> [id |-> decoded.payload.sub,
                             username |-> decoded.payload.username,
                             discriminator |-> decoded.payload.discriminator,
                             guild_ids |-> decoded.payload.guild_ids,
                             guild_roles |-> decoded.payload.guild_roles,
                             can_create_events |-> decoded.payload.can_create_events]]

\* The principals the event handlers are called with: auth.AuthenticatedUser
\* values with at least one guild, as get_current_user returns them.
Principals ==
    {[id |-> u,
      username |-> discord_user(u).username,
      discriminator |-> discord_user(u).discriminator,
      guild_ids |-> g,
      guild_roles |-> fetch_member_roles(g, m),
      can_create_events |-> c] :
        u \in Members, g \in {<<1>>, <<2, 1>>},
        m \in MemberLookups, c \in BOOLEAN}

\* events._enforce_event_roles: TRUE when it returns, FALSE when it raises 403.
enforce_event_roles_skipped(event, user) == TRUE

enforce_event_roles(event, user) ==
    LET required_roles ==
            IF event.required_role_ids # << >> THEN event.required_role_ids
            ELSE event_role_ids
        guild_id ==
            IF event.guild_id # NoGuild THEN event.guild_id
            ELSE IF user.guild_ids # << >> THEN str(user.guild_ids[1]) ELSE NoGuild
    IN  IF required_roles = << >> THEN TRUE
        ELSE IF guild_id = NoGuild THEN TRUE
        ELSE \E role \in Range(get(user.guild_roles, guild_id, << >>)) :
                role \in Range(required_roles)

\* events.join_event, line 69.
attendee_exists_ignored(rows, user) == FALSE

attendee_exists(rows, user) == \E att \in rows : att.user_id = user.id

\* events.create_event, lines 41-42.
create_error_unchecked(user) == "ok"

create_error(user) == IF ~user.can_create_events THEN "forbidden" ELSE "ok"

\* The event_attendees rows of an event.
AttendeesOf(e) == {a \in attendees : a.event_id = e}

IdleCall ==
    [pc |-> "idle", op |-> "none", user_id |-> "none", username |-> << >>,
     event_id |-> 0, res |-> "none", attendees |-> {}, credentials |-> NoBearer]

\* The call returns result with the attendee rows of its response.
Responded(o, user, e, result, rows) ==
    [pc |-> "done", op |-> o, user_id |-> user.id, username |-> << >>,
     event_id |-> e, res |-> result, attendees |-> rows, credentials |-> NoBearer]

\* The state before the first login and the first event.
AuthIdle ==
    /\ clock = 0
    /\ issued = {}
    /\ refused_log = {}

EventsIdle ==
    /\ events = << >>
    /\ created_log = << >>
    /\ attendees = {}
    /\ attendee_seq = 0
    /\ calls = [t \in Calls |-> IdleCall]

Unconfigured == [DISCORD_GUILD_IDS |-> << >>, DISCORD_EVENT_ROLE_IDS |-> << >>]

\* events.create_event: the capability check, the insert and the commit.
create_event(t, user, roles) ==
    /\ calls[t].pc = "idle"
    /\ IF create_error(user) # "ok"
          THEN /\ calls' = [calls EXCEPT
                      ![t] = Responded("create", user, 0, create_error(user), {})]
               /\ UNCHANGED <<events, created_log>>
          ELSE /\ Len(events) < MaxEvents
               /\ events' = Append(events,
                      [created_by |-> user.id,
                       guild_id |-> IF user.guild_ids # << >>
                                       THEN str(user.guild_ids[1]) ELSE NoGuild,
                       required_role_ids |-> IF roles # << >> THEN roles
                                             ELSE event_role_ids])
               /\ created_log' = Append(created_log,
                      [can_create_events |-> user.can_create_events,
                       allowed |-> allowed_guild_ids])
               /\ calls' = [calls EXCEPT
                      ![t] = Responded("create", user, Len(events) + 1, "ok", {})]
    /\ UNCHANGED <<settings, clock, issued, refused_log, attendees, attendee_seq>>
    /\ UNCHANGED vars

\* events.join_event up to its insert: _get_event_or_404, the role gate and
\* the look for the caller among the attendees loaded.
join_select(t, user, e) ==
    /\ calls[t].pc = "idle"
    /\ attendee_seq + Cardinality({c \in Calls : calls[c].pc = "joining"}) < MaxAttendees
    /\ calls' = [calls EXCEPT ![t] =
          IF e > Len(events) THEN Responded("join", user, e, "not_found", {})
          ELSE IF ~enforce_event_roles(events[e], user)
                  THEN Responded("join", user, e, "forbidden", {})
          ELSE IF attendee_exists(AttendeesOf(e), user)
                  THEN Responded("join", user, e, "ok", AttendeesOf(e))
          ELSE [pc |-> "joining", op |-> "join", user_id |-> user.id,
                username |-> <<user.username, "#", user.discriminator>>,
                event_id |-> e, res |-> "none", attendees |-> AttendeesOf(e),
                credentials |-> NoBearer]]
    /\ UNCHANGED <<settings, clock, issued, refused_log, events, created_log,
                   attendees, attendee_seq>>
    /\ UNCHANGED vars

\* events.join_event, lines 71-79: the insert, the refresh and the commit.
join_event(t) ==
    /\ calls[t].pc = "joining"
    /\ attendee_seq' = attendee_seq + 1
    /\ attendees' = attendees \cup
          {[id |-> attendee_seq + 1, event_id |-> calls[t].event_id,
            user_id |-> calls[t].user_id, username |-> calls[t].username]}
    /\ calls' = [calls EXCEPT ![t] =
          [@ EXCEPT !.pc = "done", !.username = << >>, !.res = "ok",
                    !.attendees = {a \in attendees' : a.event_id = calls[t].event_id}]]
    /\ UNCHANGED <<settings, clock, issued, refused_log, events, created_log>>
    /\ UNCHANGED vars

\* events.leave_event up to its second select: _get_event_or_404.
leave_select(t, user, e) ==
    /\ calls[t].pc = "idle"
    /\ calls' = [calls EXCEPT ![t] =
          IF e > Len(events) THEN Responded("leave", user, e, "not_found", {})
          ELSE [pc |-> "leaving", op |-> "leave", user_id |-> user.id,
                username |-> << >>, event_id |-> e, res |-> "none",
                attendees |-> AttendeesOf(e), credentials |-> NoBearer]]
    /\ UNCHANGED <<settings, clock, issued, refused_log, events, created_log,
                   attendees, attendee_seq>>
    /\ UNCHANGED vars

\* The rows the select of events.leave_event, lines 89-92, matches.
own_rows_of_event(e, u) == {a \in attendees : a.event_id = e}

own_rows(e, u) == {a \in attendees : a.event_id = e /\ a.user_id = u}

\* events.leave_event, lines 89-97: the caller's row, if there is one, is
\* deleted (any one of them: the select has no order) and the event re-read.
leave_event(t) ==
    /\ calls[t].pc = "leaving"
    /\ LET mine == own_rows(calls[t].event_id, calls[t].user_id)
       IN  IF mine = {}
              THEN /\ attendees' = attendees
                   /\ calls' = [calls EXCEPT ![t] = [@ EXCEPT !.pc = "done", !.res = "ok"]]
              ELSE \E attendee \in mine :
                   /\ attendees' = attendees \ {attendee}
                   /\ calls' = [calls EXCEPT ![t] =
                         [@ EXCEPT !.pc = "done", !.res = "ok",
                                   !.attendees = {a \in attendees' :
                                                     a.event_id = calls[t].event_id}]]
    /\ UNCHANGED <<settings, clock, issued, refused_log, events, created_log, attendee_seq>>
    /\ UNCHANGED vars

\* The response has been sent: the caller slot is free again.
Respond(t) ==
    /\ calls[t].pc = "done"
    /\ calls' = [calls EXCEPT ![t] = IdleCall]
    /\ UNCHANGED <<settings, clock, issued, refused_log, events, created_log,
                   attendees, attendee_seq>>
    /\ UNCHANGED vars


\* auth.discord_callback with Discord's answers: a token for the caller's
\* allow-listed guilds, or 403 when there is none.
discord_callback(u, guilds, member) ==
    LET guild_ids == fetch_guild_ids(guilds)
        allowed == restrict(guild_ids, Range(allowed_guild_ids))
        guild_roles == fetch_member_roles(allowed, member)
        user == [id |-> discord_user(u).id,
                 username |-> discord_user(u).username,
                 discriminator |-> discord_user(u).discriminator,
                 guild_ids |-> allowed,
                 guild_roles |-> guild_roles,
                 can_create_events |-> capability(guild_roles, event_role_ids)]
        minted == [token |-> create_access_token(user, clock), iat |-> clock]
    IN  /\ Cardinality(issued) < MaxTokens
        /\ IF allowed = << >>
              THEN /\ refused_log' = refused_log \cup {u}
                   /\ UNCHANGED issued
              ELSE /\ issued' = issued \cup {minted}
                   /\ UNCHANGED refused_log
        /\ UNCHANGED <<settings, clock, events, created_log, attendees, attendee_seq, calls>>
        /\ UNCHANGED vars

\* The service is restarted with another environment (config.get_settings
\* reads it once per process).
redeploy(guild_ids_env, event_role_ids_env) ==
    /\ settings' = [DISCORD_GUILD_IDS |-> guild_ids_env,
                    DISCORD_EVENT_ROLE_IDS |-> event_role_ids_env]
    /\ settings' # settings
    /\ UNCHANGED <<clock, issued, refused_log, events, created_log, attendees,
                   attendee_seq, calls>>
    /\ UNCHANGED vars

\* Time passes.
tick ==
    /\ clock < MaxClock
    /\ clock' = clock + 1
    /\ UNCHANGED <<settings, issued, refused_log, events, created_log, attendees,
                   attendee_seq, calls>>
    /\ UNCHANGED vars

\* What a caller can present: nothing, a minted token, a forged one.
Credentials ==
    {NoBearer} \cup {Bearer(i.token) : i \in issued} \cup {Bearer(f) : f \in ForgedTokens}

\* A call with credentials: the dependency get_current_user raises, or the
\* handler runs as the principal it returns.
Rejected(t, o, credentials) ==
    /\ calls[t].pc = "idle"
    /\ calls' = [calls EXCEPT ![t] =
          [IdleCall EXCEPT !.pc = "done", !.op = o, !.credentials = credentials,
                           !.res = get_current_user(credentials, clock).status]]
    /\ UNCHANGED <<settings, clock, issued, refused_log, events, created_log,
                   attendees, attendee_seq>>
    /\ UNCHANGED vars

\* auth.get_me: GET /auth/me answers with the principal.
get_me(t, credentials) ==
    IF get_current_user(credentials, clock).status # "ok"
        THEN Rejected(t, "me", credentials)
        ELSE /\ calls[t].pc = "idle"
             /\ calls' = [calls EXCEPT ![t] =
                   [IdleCall EXCEPT
                       !.pc = "done", !.op = "me", !.res = "ok",
                       !.credentials = credentials,
                       !.user_id = get_current_user(credentials, clock).user.id]]
             /\ UNCHANGED <<settings, clock, issued, refused_log, events, created_log,
                            attendees, attendee_seq>>
             /\ UNCHANGED vars

\* POST /events with credentials.
post_events(t, credentials, roles) ==
    IF get_current_user(credentials, clock).status # "ok"
        THEN Rejected(t, "create", credentials)
        ELSE create_event(t, get_current_user(credentials, clock).user, roles)

-----------------------------------------------------------------------------
(***************************************************************************)
(* The list endpoints: GET /crafting/requests (crafting.list_requests) and *)
(* GET /alerts (alerts.list_alerts).  Each is one SELECT over the rows     *)
(* committed when it runs, so the handlers that write those rows appear    *)
(* here as single commits, with the columns the two queries read:          *)
(* craft_requests.status and created_at, events.start_at.  ORDER BY leaves *)
(* the order of rows with equal keys to the database.  A minute of         *)
(* alert_lead_minutes is abbreviated to one second, as for the tokens.     *)
(***************************************************************************)

\* Bounds of the model.
MaxRows == 3
MaxLead == 1

Leads == 0..MaxLead
StartTimes == 0..MaxClock

VARIABLES
    request_rows,        \* table craft_requests: id |-> [status, created_at, assigned]
    event_rows,          \* table events: id |-> [start_at]
    alert_lead_minutes,  \* settings.alert_lead_minutes of the running service
    listed,              \* the response of the list call in flight
    traffic              \* the router the clients of this run call

qvars == <<request_rows, event_rows, alert_lead_minutes, listed, traffic>>

NotListed == [op |-> "none", rows |-> << >>]

QueriesIdle ==
    /\ request_rows = << >>
    /\ event_rows = << >>
    /\ alert_lead_minutes = MaxLead
    /\ listed = NotListed
    /\ traffic = "any"

\* The text of a status value, and the order of two texts in an ascending
\* ORDER BY of a String column.
Alphabet ==
    <<"a", "b", "c", "d", "e", "f", "g", "h", "i", "j", "k", "l", "m",
      "n", "o", "p", "q", "r", "s", "t", "u", "v", "w", "x", "y", "z">>
Ord(c) == CHOOSE i \in DOMAIN Alphabet : Alphabet[i] = c
Text ==
    [open |-> <<"o", "p", "e", "n">>,
     accepted |-> <<"a", "c", "c", "e", "p", "t", "e", "d">>,
     completed |-> <<"c", "o", "m", "p", "l", "e", "t", "e", "d">>,
     cancelled |-> <<"c", "a", "n", "c", "e", "l", "l", "e", "d">>]

RECURSIVE TextLess(_, _)
TextLess(a, b) ==
    IF b = << >> THEN FALSE
    ELSE IF a = << >> THEN TRUE
    ELSE IF Head(a) # Head(b) THEN Ord(Head(a)) < Ord(Head(b))
    ELSE TextLess(Tail(a), Tail(b))

\* The sequences that hold every element of a set once.
Orderings(S) ==
    {p \in [1..Cardinality(S) -> S] : \A x \in S : \E i \in DOMAIN p : p[i] = x}

\* The results a SELECT ... ORDER BY may give for a set of rows, before
\* holding the pairs <<a, b>> of rows such that the keys of a sort strictly
\* before those of b.
order_by(rows, before) ==
    {p \in Orderings(rows) :
        \A i, j \in DOMAIN p : i < j => <<p[j], p[i]>> \notin before}

\* The rows of a table, each with its id.
RowsOf(table) == {[id |-> i] @@ table[i] : i \in DOMAIN table}

\* crafting.list_requests, line 55:
\* order_by(CraftRequest.status.asc(), CraftRequest.created_at.desc())
status_asc_created_desc(a, b) ==
    \/ TextLess(Text[a.status], Text[b.status])
    \/ a.status = b.status /\ a.created_at > b.created_at

\* alerts.list_alerts, line 27: order_by(Event.start_at.asc())
start_at_asc(a, b) == a.start_at < b.start_at

\* timedelta(minutes = m), in ticks.
minutes(m) == m * TicksPerSecond

\* alerts.list_alerts, line 27: Event.start_at.between(now, window_end)
between_exclusive(x, low, high) == low < x /\ x < high

between(x, low, high) == low <= x /\ x <= high

\* crafting.create_request commits a row: status open, created_at now.
create_request_row ==
    /\ Len(request_rows) < MaxRows
    /\ request_rows' = Append(request_rows,
          [status |-> "open", created_at |-> clock, assigned |-> FALSE])
    /\ UNCHANGED <<event_rows, alert_lead_minutes, listed, traffic, clock>>
    /\ UNCHANGED <<settings, issued, refused_log, events, created_log, attendees,
                   attendee_seq, calls>>
    /\ UNCHANGED vars

\* An accept, complete or cancel call on request id commits: accept takes an
\* open request, complete one that has an assignment, cancel any.
commit_status(id, o) ==
    /\ id \in DOMAIN request_rows
    /\ o = "accept" => request_rows[id].status = "open"
    /\ o = "complete" => request_rows[id].assigned
    /\ request_rows' = [request_rows EXCEPT ![id] =
          [@ EXCEPT !.status = CASE o = "accept" -> "accepted"
                                 [] o = "complete" -> "completed"
                                 [] o = "cancel" -> "cancelled",
                    !.assigned = @ \/ o = "accept"]]
    /\ request_rows' # request_rows
    /\ UNCHANGED <<event_rows, alert_lead_minutes, listed, traffic, clock>>
    /\ UNCHANGED <<settings, issued, refused_log, events, created_log, attendees,
                   attendee_seq, calls>>
    /\ UNCHANGED vars

\* events.create_event commits a row with payload.start_at = s.
create_event_row(s) ==
    /\ Len(event_rows) < MaxRows
    /\ event_rows' = Append(event_rows, [start_at |-> s])
    /\ UNCHANGED <<request_rows, alert_lead_minutes, listed, traffic, clock>>
    /\ UNCHANGED <<settings, issued, refused_log, events, created_log, attendees,
                   attendee_seq, calls>>
    /\ UNCHANGED vars

\* crafting.list_requests
list_requests ==
    /\ listed = NotListed
    /\ \E records \in order_by(RowsOf(request_rows),
                              {<<a, b>> \in RowsOf(request_rows) \X RowsOf(request_rows) :
                                  status_asc_created_desc(a, b)}) :
          listed' = [op |-> "requests", rows |-> records]
    /\ UNCHANGED <<request_rows, event_rows, alert_lead_minutes, traffic, clock>>
    /\ UNCHANGED <<settings, issued, refused_log, events, created_log, attendees,
                   attendee_seq, calls>>
    /\ UNCHANGED vars

\* alerts.list_alerts
list_alerts ==
    /\ listed = NotListed
    /\ LET now == clock
           lead == minutes(alert_lead_minutes)
           window_end == now + lead
           found == {e \in RowsOf(event_rows) : between(e.start_at, now, window_end)}
       IN  \E records \in order_by(found,
                                  {<<a, b>> \in found \X found : start_at_asc(a, b)}) :
              listed' = [op |-> "alerts",
                         rows |-> [i \in DOMAIN records |->
                                     [event_id |-> records[i].id,
                                      start_at |-> records[i].start_at,
                                      lead_minutes |-> alert_lead_minutes]]]
    /\ UNCHANGED <<request_rows, event_rows, alert_lead_minutes, traffic, clock>>
    /\ UNCHANGED <<settings, issued, refused_log, events, created_log, attendees,
                   attendee_seq, calls>>
    /\ UNCHANGED vars

\* The response has been sent.
Deliver ==
    /\ listed # NotListed
    /\ listed' = NotListed
    /\ UNCHANGED <<request_rows, event_rows, alert_lead_minutes, traffic, clock>>
    /\ UNCHANGED <<settings, issued, refused_log, events, created_log, attendees,
                   attendee_seq, calls>>
    /\ UNCHANGED vars

\* The calls on /crafting; none of them touches the events or the settings.
Next ==
    \/ (\E u \in Users : create_request(u)) /\ UNCHANGED <<evars, qvars>>
    \/ (\E t \in Tasks, o \in Ops, r \in RequestIds : Invoke(t, o, r)) /\ UNCHANGED <<evars, qvars>>
    \/ (\E t \in Tasks : accept_select(t)) /\ UNCHANGED <<evars, qvars>>
    \/ (\E t \in Tasks, u \in Users, l \in Locations, e \in {NoEst} \cup Times :
          accept_request(t, u, l, e)) /\ UNCHANGED <<evars, qvars>>
    \/ (\E t \in Tasks : select_request(t)) /\ UNCHANGED <<evars, qvars>>
    \/ (\E t \in Tasks : load_assignment(t)) /\ UNCHANGED <<evars, qvars>>
    \/ (\E t \in Tasks, u \in Users, n \in Times : complete_request(t, u, n))
          /\ UNCHANGED <<evars, qvars>>
    \/ (\E t \in Tasks, u \in Users : cancel_request(t, u)) /\ UNCHANGED <<evars, qvars>>
    \/ (\E t \in Tasks : Return(t)) /\ UNCHANGED <<evars, qvars>>

CraftingInit ==
    Init /\ settings = Unconfigured /\ AuthIdle /\ EventsIdle /\ QueriesIdle

Spec == CraftingInit /\ [][Next]_<<vars, evars, qvars>>

\* The event attendance engine, called by authenticated principals.
EventInit ==
    /\ Init /\ AuthIdle /\ EventsIdle /\ QueriesIdle
    /\ settings \in {[DISCORD_GUILD_IDS |-> << >>, DISCORD_EVENT_ROLE_IDS |-> r] :
                        r \in RoleEnvs}

EventNext ==
    \/ (\E t \in Calls, user \in Principals, roles \in RoleLists :
          create_event(t, user, roles)) /\ UNCHANGED qvars
    \/ (\E t \in Calls, user \in Principals, e \in EventIds :
          join_select(t, user, e)) /\ UNCHANGED qvars
    \/ (\E t \in Calls : join_event(t)) /\ UNCHANGED qvars
    \/ (\E t \in Calls, user \in Principals, e \in EventIds :
          leave_select(t, user, e)) /\ UNCHANGED qvars
    \/ (\E t \in Calls : leave_event(t)) /\ UNCHANGED qvars
    \/ (\E t \in Calls : Respond(t)) /\ UNCHANGED qvars

EventSpec == EventInit /\ [][EventNext]_<<vars, evars, qvars>>

\* Login and authentication over time.  Authentication reads the settings
\* and the clock only, so one caller slot shows all of it.
Caller == CHOOSE t \in Calls : \A c \in Calls : t <= c

LoginInit ==
    /\ Init /\ AuthIdle /\ EventsIdle /\ QueriesIdle
    /\ settings \in {[DISCORD_GUILD_IDS |-> g, DISCORD_EVENT_ROLE_IDS |-> r] :
                        g \in GuildEnvs, r \in RoleEnvs}

LoginNext ==
    \/ (\E u \in Members, guilds \in UpstreamGuilds,
          member \in MemberLookups :
          discord_callback(u, guilds, member)) /\ UNCHANGED qvars
    \/ (\E g \in GuildEnvs, r \in RoleEnvs : redeploy(g, r))
          /\ UNCHANGED qvars
    \/ (tick) /\ UNCHANGED qvars
    \/ (\E credentials \in Credentials : get_me(Caller, credentials))
          /\ UNCHANGED qvars
    \/ (Respond(Caller)) /\ UNCHANGED qvars

LoginSpec == LoginInit /\ [][LoginNext]_<<vars, evars, qvars>>

\* Event creation with credentials while the allow-list changes.
AuthNext ==
    \/ (\E u \in Members, guilds \in UpstreamGuilds,
          member \in MemberLookups :
          discord_callback(u, guilds, member)) /\ UNCHANGED qvars
    \/ (\E g \in GuildEnvs, r \in RoleEnvs : redeploy(g, r))
          /\ UNCHANGED qvars
    \/ (\E credentials \in Credentials, roles \in RoleLists :
          post_events(Caller, credentials, roles)) /\ UNCHANGED qvars
    \/ (Respond(Caller)) /\ UNCHANGED qvars

AuthSpec == LoginInit /\ [][AuthNext]_<<vars, evars, qvars>>

\* The requests listed while requests are created, accepted, completed and
\* cancelled.
ListNext ==
    \/ create_request_row
    \/ \E id \in 1..MaxRows, o \in Ops : commit_status(id, o)
    \/ tick /\ UNCHANGED qvars
    \/ list_requests
    \/ Deliver

ListSpec == CraftingInit /\ [][ListNext]_<<vars, evars, qvars>>

\* The alerts listed while events are created and time passes.
AlertInit ==
    /\ Init /\ settings = Unconfigured /\ AuthIdle /\ EventsIdle
    /\ request_rows = << >>
    /\ event_rows = << >>
    /\ alert_lead_minutes \in Leads
    /\ listed = NotListed
    /\ traffic = "any"

AlertNext ==
    \/ \E s \in StartTimes : create_event_row(s)
    \/ tick /\ UNCHANGED qvars
    \/ list_alerts
    \/ Deliver

AlertSpec == AlertInit /\ [][AlertNext]_<<vars, evars, qvars>>

\* The whole service.  The crafting router, the events router called by
\* principals and the events router called with credentials write no row in
\* common, and the clients of a run call one of the three.
ServiceInit ==
    /\ Init /\ AuthIdle /\ EventsIdle
    /\ request_rows = << >>
    /\ event_rows = << >>
    /\ alert_lead_minutes = MaxLead
    /\ listed = NotListed
    /\ \/ traffic = "crafting" /\ settings = Unconfigured
       \/ traffic = "events"
             /\ settings \in {[DISCORD_GUILD_IDS |-> << >>, DISCORD_EVENT_ROLE_IDS |-> r] :
                                 r \in RoleEnvs}
       \/ traffic = "auth"
             /\ settings \in {[DISCORD_GUILD_IDS |-> g, DISCORD_EVENT_ROLE_IDS |-> r] :
                                 g \in GuildEnvs, r \in RoleEnvs}

ServiceNext ==
    \/ /\ traffic = "crafting"
       /\ \E u \in Users : create_request(u)
       /\ UNCHANGED <<evars, qvars>>
    \/ /\ traffic = "crafting"
       /\ \E t \in Tasks, o \in Ops, r \in RequestIds : Invoke(t, o, r)
       /\ UNCHANGED <<evars, qvars>>
    \/ /\ traffic = "crafting"
       /\ \E t \in Tasks : accept_select(t)
       /\ UNCHANGED <<evars, qvars>>
    \/ /\ traffic = "crafting"
       /\ \E t \in Tasks, u \in Users, l \in Locations, e \in {NoEst} \cup Times :
             accept_request(t, u, l, e)
       /\ UNCHANGED <<evars, qvars>>
    \/ /\ traffic = "crafting"
       /\ \E t \in Tasks : select_request(t)
       /\ UNCHANGED <<evars, qvars>>
    \/ /\ traffic = "crafting"
       /\ \E t \in Tasks : load_assignment(t)
       /\ UNCHANGED <<evars, qvars>>
    \/ /\ traffic = "crafting"
       /\ \E t \in Tasks, u \in Users, n \in Times : complete_request(t, u, n)
       /\ UNCHANGED <<evars, qvars>>
    \/ /\ traffic = "crafting"
       /\ \E t \in Tasks, u \in Users : cancel_request(t, u)
       /\ UNCHANGED <<evars, qvars>>
    \/ /\ traffic = "crafting"
       /\ \E t \in Tasks : Return(t)
       /\ UNCHANGED <<evars, qvars>>
    \/ /\ traffic = "events"
       /\ \E t \in Calls, user \in Principals, roles \in RoleLists :
             create_event(t, user, roles)
       /\ UNCHANGED qvars
    \/ /\ traffic = "events"
       /\ \E t \in Calls, user \in Principals, e \in EventIds : join_select(t, user, e)
       /\ UNCHANGED qvars
    \/ /\ traffic = "events"
       /\ \E t \in Calls : join_event(t)
       /\ UNCHANGED qvars
    \/ /\ traffic = "events"
       /\ \E t \in Calls, user \in Principals, e \in EventIds : leave_select(t, user, e)
       /\ UNCHANGED qvars
    \/ /\ traffic = "events"
       /\ \E t \in Calls : leave_event(t)
       /\ UNCHANGED qvars
    \/ /\ traffic = "events"
       /\ \E t \in Calls : Respond(t)
       /\ UNCHANGED qvars
    \/ /\ traffic = "auth"
       /\ \E u \in Members, guilds \in UpstreamGuilds, member \in MemberLookups :
             discord_callback(u, guilds, member)
       /\ UNCHANGED qvars
    \/ /\ traffic = "auth"
       /\ \E g \in GuildEnvs, r \in RoleEnvs : redeploy(g, r)
       /\ UNCHANGED qvars
    \/ /\ traffic = "auth"
       /\ \E credentials \in Credentials, roles \in RoleLists :
             post_events(Caller, credentials, roles)
       /\ UNCHANGED qvars
    \/ /\ traffic = "auth"
       /\ Respond(Caller)
       /\ UNCHANGED qvars

ServiceSpec == ServiceInit /\ [][ServiceNext]_<<vars, evars, qvars>>

-----------------------------------------------------------------------------
(* Properties of the crafting claim engine. *)

\* Task t returns its result in this step.
Ends(t) == tasks[t].pc \notin {"idle", "done"} /\ tasks'[t].pc = "done"

\* No row of either table changes in this step.
TablesUnchanged == requests' = requests /\ assignments' = assignments

HasAssignment(r) == AssignmentsOf(r) # {}

NonBlank(l) == strip(l) # << >>

\* The ids of the assignment rows inserted by this step.
Inserted == {a \in assignments' : \A b \in assignments : b.id # a.id}

\* C1: under every interleaving of accept, complete and cancel calls, each
\* request has at most one assignment, and every assignment row that is
\* inserted is inserted by an accept call that read its request, under the
\* row lock, in status open, the request being open at that moment.
C1_AtMostOneAssignment ==
    [][ /\ \A r \in RequestIds :
            Cardinality({a \in assignments' : a.request_id = r}) <= 1
        /\ \A a \in Inserted :
            \E t \in Tasks :
                /\ Ends(t)
                /\ tasks[t].op = "accept"
                /\ tasks[t].rid = a.request_id
                /\ tasks[t].st = "open"
                /\ requests[a.request_id].status = "open"
                /\ tasks'[t].res = "ok"
                /\ a.crafter_id = tasks'[t].user ]_vars

\* An accept was refused as already claimed while the winner's assignment is
\* the request's only one.
C1_Witness ==
    \E t1 \in Tasks, t2 \in Tasks :
        /\ tasks[t1].pc = "done" /\ tasks[t1].op = "accept" /\ tasks[t1].res = "ok"
        /\ tasks[t2].pc = "done" /\ tasks[t2].op = "accept"
        /\ tasks[t2].res = "conflict"
        /\ tasks[t1].rid = tasks[t2].rid
        /\ Cardinality(AssignmentsOf(tasks[t1].rid)) = 1

\* Two accept calls of distinct crafters with non-blank locations that both
\* arrived while the request was open, no other call having changed it.
Racing(t1, t2) ==
    /\ t1 # t2
    /\ tasks[t1].pc = "done" /\ tasks[t2].pc = "done"
    /\ tasks[t1].op = "accept" /\ tasks[t2].op = "accept"
    /\ tasks[t1].rid = tasks[t2].rid
    /\ tasks[t1].open0 /\ tasks[t2].open0
    /\ tasks[t1].user # tasks[t2].user
    /\ NonBlank(tasks[t1].loc) /\ NonBlank(tasks[t2].loc)
    /\ tasks[t1].intf \subseteq {t2} /\ tasks[t2].intf \subseteq {t1}

\* C2: of two concurrent accept calls by distinct crafters on an open request,
\* both with a non-blank location, exactly one succeeds and the other fails
\* as already claimed; the request is then accepted and has exactly one
\* assignment, whose crafter is the caller that succeeded.
C2_ExactlyOneAcceptWins ==
    \A t1 \in Tasks, t2 \in Tasks :
        Racing(t1, t2) =>
            \E w \in {t1, t2}, l \in {t1, t2} :
                /\ w # l
                /\ tasks[w].res = "ok"
                /\ tasks[l].res = "conflict"
                /\ requests[tasks[w].rid].status = "accepted"
                /\ \E a \in assignments :
                    /\ AssignmentsOf(tasks[w].rid) = {a}
                    /\ a.crafter_id = tasks[w].user

C2_Witness ==
    \E t1 \in Tasks, t2 \in Tasks :
        /\ Racing(t1, t2)
        /\ tasks[t1].res = "ok"
        /\ tasks[t2].res = "conflict"
        /\ tasks[t2].intf = {t1}

AllowedTransitions ==
    {<<"open", "accepted">>, <<"accepted", "completed">>,
     <<"open", "cancelled">>, <<"accepted", "cancelled">>}

\* C3: every change of a request's status is open->accepted,
\* accepted->completed, open->cancelled or accepted->cancelled, so a
\* completed or cancelled request never changes status again.
C3_OnlyAllowedTransitions ==
    [][ \A r \in 1..Len(requests) :
            requests'[r].status # requests[r].status =>
                <<requests[r].status, requests'[r].status>> \in AllowedTransitions
      ]_vars

\* C4: a cancelled request that has an assignment has it in status cancelled.
C4_CancelledTogether ==
    \A r \in 1..Len(requests) :
        requests[r].status = "cancelled" =>
            \A a \in AssignmentsOf(r) : a.status = "cancelled"

\* C5: a request has an assignment exactly if some accept has succeeded on
\* it: an open request has none, an accepted or completed request has one,
\* and a cancelled request has one exactly if it had one whenever it was
\* cancelled.
C5_AssignmentIffAccepted ==
    \A r \in 1..Len(requests) :
        /\ HasAssignment(r) <=> r \in accepted_log
        /\ requests[r].status = "open" => ~HasAssignment(r)
        /\ requests[r].status \in {"accepted", "completed"} => HasAssignment(r)
        /\ requests[r].status = "cancelled" =>
                (HasAssignment(r) <=> r \notin unclaimed_log)

\* A request cancelled after its acceptance, and one cancelled before any.
C5_Witness ==
    \E r \in 1..Len(requests) :
        /\ requests[r].status = "cancelled"
        /\ HasAssignment(r)
        /\ r \in accepted_log
        /\ \E t \in Tasks :
            /\ tasks[t].pc = "done" /\ tasks[t].op = "cancel"
            /\ tasks[t].res = "ok" /\ tasks[t].rid = r

\* C6: an accept on an existing request that is not open fails as already
\* claimed whatever location is supplied, and an accept on an unknown request
\* id fails as not found; neither inserts an assignment nor changes any row.
C6_AcceptNonOpenConflicts ==
    [][ \A t \in Tasks :
            Ends(t) /\ tasks[t].op = "accept" =>
                /\ tasks[t].rid > Len(requests) =>
                        tasks'[t].res = "not_found" /\ TablesUnchanged
                /\ (/\ tasks[t].rid <= Len(requests)
                    /\ requests[tasks[t].rid].status # "open") =>
                        tasks'[t].res = "conflict" /\ TablesUnchanged
      ]_vars

\* An accept with a blank location on a request that is no longer open was
\* refused as already claimed.
C6_Witness ==
    \E t \in Tasks :
        /\ tasks[t].pc = "done" /\ tasks[t].op = "accept"
        /\ tasks[t].res = "conflict"
        /\ ~NonBlank(tasks[t].loc)
        /\ requests[tasks[t].rid].status \in {"completed", "cancelled"}

\* C7: an accept on an open request with an empty or whitespace-only
\* location fails validation, changes no row and releases the row lock, the
\* request staying open for a later accept.
C7_BlankLocationRejected ==
    [][ \A t \in Tasks :
            (/\ Ends(t) /\ tasks[t].op = "accept"
             /\ tasks[t].rid <= Len(requests)
             /\ requests[tasks[t].rid].status = "open"
             /\ ~NonBlank(tasks'[t].loc)) =>
                /\ tasks'[t].res = "validation"
                /\ TablesUnchanged
                /\ requests'[tasks[t].rid].status = "open"
                /\ lock'[tasks[t].rid] = NoTask
      ]_vars

\* An accept with a whitespace-only location failed validation, and a later
\* accept by another user succeeded.
C7_Witness ==
    \E t1 \in Tasks, t2 \in Tasks :
        /\ tasks[t1].pc = "done" /\ tasks[t1].op = "accept"
        /\ tasks[t1].res = "validation" /\ tasks[t1].loc = <<Space>>
        /\ tasks[t2].pc = "done" /\ tasks[t2].op = "accept"
        /\ tasks[t2].res = "ok" /\ tasks[t2].rid = tasks[t1].rid
        /\ tasks[t2].user # tasks[t1].user

\* C8: a complete on a request that has no assignment fails validation for
\* every caller, the requester included, and changes no row.
C8_CompleteNeedsAssignment ==
    [][ \A t \in Tasks :
            (/\ Ends(t) /\ tasks[t].op = "complete"
             /\ tasks[t].rid <= Len(requests)
             /\ ~HasAssignment(tasks[t].rid)) =>
                tasks'[t].res = "validation" /\ TablesUnchanged
      ]_vars

\* Completes of a never accepted request by its requester and by another
\* user both failed validation.
C8_Witness ==
    \E t1 \in Tasks, t2 \in Tasks :
        /\ tasks[t1].pc = "done" /\ tasks[t1].op = "complete"
        /\ tasks[t1].res = "validation"
        /\ tasks[t1].user = requests[tasks[t1].rid].requester_id
        /\ tasks[t2].pc = "done" /\ tasks[t2].op = "complete"
        /\ tasks[t2].res = "validation" /\ tasks[t2].rid = tasks[t1].rid
        /\ tasks[t2].user # requests[tasks[t1].rid].requester_id
        /\ requests[tasks[t1].rid].status = "open"

\* User u is neither the requester of request r nor the crafter of its
\* assignment.
Outsider(u, r) ==
    /\ u # requests[r].requester_id
    /\ \A a \in AssignmentsOf(r) : a.crafter_id # u

\* Every request that moves to completed or cancelled in this step is moved
\* by a call of its requester or of its assignee.
MovedByParty ==
    \A r \in 1..Len(requests) :
        (/\ requests'[r].status # requests[r].status
         /\ requests'[r].status \in {"completed", "cancelled"}) =>
            \E t \in Tasks :
                /\ Ends(t) /\ tasks[t].rid = r
                /\ tasks[t].op \in {"complete", "cancel"}
                /\ ~Outsider(tasks'[t].user, r)

\* C9 as stated: a complete or cancel by a user who is neither the requester
\* nor the assignment's crafter fails as forbidden and changes no row, and
\* every completed or cancelled request was moved there by its requester or
\* its assignee.
C9_OutsiderForbidden ==
    [][ /\ \A t \in Tasks :
            (/\ Ends(t) /\ tasks[t].op \in {"complete", "cancel"}
             /\ tasks[t].rid <= Len(requests)
             /\ Outsider(tasks'[t].user, tasks[t].rid)) =>
                tasks'[t].res = "forbidden" /\ TablesUnchanged
        /\ MovedByParty
      ]_vars

\* C9 as amended: such a call fails and changes no row; the failure is
\* forbidden, except that a complete that found no assignment fails
\* validation; and every completed or cancelled request was moved there by
\* its requester or its assignee.
C9_OutsiderRefused ==
    [][ /\ \A t \in Tasks :
            (/\ Ends(t) /\ tasks[t].op \in {"complete", "cancel"}
             /\ tasks[t].rid <= Len(requests)
             /\ Outsider(tasks'[t].user, tasks[t].rid)) =>
                /\ tasks'[t].res =
                        IF tasks[t].op = "complete" /\ tasks[t].asg = {}
                        THEN "validation" ELSE "forbidden"
                /\ TablesUnchanged
        /\ MovedByParty
      ]_vars

\* An outsider's cancel and an outsider's complete of an accepted request
\* were both refused as forbidden.
C9_Witness ==
    \E t1 \in Tasks, t2 \in Tasks :
        /\ tasks[t1].pc = "done" /\ tasks[t1].op = "cancel"
        /\ tasks[t1].res = "forbidden"
        /\ tasks[t2].pc = "done" /\ tasks[t2].op = "complete"
        /\ tasks[t2].res = "forbidden" /\ tasks[t2].rid = tasks[t1].rid
        /\ Outsider(tasks[t1].user, tasks[t1].rid)
        /\ Outsider(tasks[t2].user, tasks[t2].rid)
        /\ requests[tasks[t1].rid].status = "accepted"

\* The row of craft_assignments with id i, in this state and in the next.
RowOf(i) == CHOOSE b \in assignments : b.id = i
RowOfNext(i) == CHOOSE b \in assignments' : b.id = i

\* The call of task t is a complete that returns success in this step.
Completes(t) ==
    Ends(t) /\ tasks[t].op = "complete" /\ tasks'[t].res = "ok"

\* C10: a complete that succeeds leaves the request completed and its
\* assignment fulfilled with a non-null estimated_completion: an estimate
\* already set is kept, and an unset one is set to the time of completion.
C10_CompleteEffect ==
    [][ \A t \in Tasks :
            Completes(t) =>
                LET a == TheAssignment(tasks[t].asg) IN
                /\ requests'[tasks[t].rid].status = "completed"
                /\ RowOfNext(a.id).status = "fulfilled"
                /\ RowOfNext(a.id).estimated_completion # NoEst
                /\ a.estimated_completion # NoEst =>
                        RowOfNext(a.id).estimated_completion =
                            RowOf(a.id).estimated_completion
                /\ a.estimated_completion = NoEst =>
                        RowOfNext(a.id).estimated_completion = tasks'[t].now
      ]_vars

-----------------------------------------------------------------------------
(* Properties of the event attendance engine. *)

\* Call t returns its result in this step.
Responds(t) == calls[t].pc # "done" /\ calls'[t].pc = "done"

EventTablesUnchanged ==
    events' = events /\ attendees' = attendees /\ attendee_seq' = attendee_seq

\* C11: in every reachable state, whatever the interleaving of join and leave
\* calls (two concurrent joins of one principal to one event included), an
\* event has at most one event_attendees row per user id.
C11_OneRowPerUser ==
    \A a \in attendees, b \in attendees :
        a.event_id = b.event_id /\ a.user_id = b.user_id => a.id = b.id

allvars == <<vars, evars, qvars>>

\* C12 as stated: a join by a principal who already has an attendee row for
\* the event returns success at once and writes nothing.
C12_RejoinSucceeds ==
    [][\A t \in Calls, user \in Principals, e \in EventIds :
          join_select(t, user, e) /\ own_rows(e, user.id) # {}
              => /\ calls'[t].pc = "done"
                 /\ calls'[t].res = "ok"
                 /\ EventTablesUnchanged]_allvars

\* C12, amended: a join by a principal who already has an attendee row for
\* the event and passes the event's role gate returns success at once with
\* the attendees as they are and writes nothing; and only a join that found
\* no row of its caller inserts one, so joining twice in sequence yields one row.
C12_RejoinPastGate ==
    [][/\ \A t \in Calls, user \in Principals, e \in EventIds :
             /\ join_select(t, user, e)
             /\ own_rows(e, user.id) # {}
             /\ enforce_event_roles(events[e], user)
             => /\ calls'[t].pc = "done"
                /\ calls'[t].res = "ok"
                /\ calls'[t].attendees = AttendeesOf(e)
                /\ EventTablesUnchanged
       /\ \A t \in Calls :
             join_event(t)
             => \A a \in calls[t].attendees : a.user_id # calls[t].user_id]_allvars

\* Two joins of one user to one event have both succeeded, a single row was
\* ever inserted, and it is that user's.
C12_Witness ==
    \E t1 \in Calls, t2 \in Calls :
        /\ t1 # t2
        /\ \A t \in {t1, t2} :
              calls[t].pc = "done" /\ calls[t].op = "join" /\ calls[t].res = "ok"
        /\ calls[t1].user_id = calls[t2].user_id
        /\ calls[t1].event_id = calls[t2].event_id
        /\ attendee_seq = 1
        /\ \E a \in attendees :
              a.user_id = calls[t1].user_id /\ a.event_id = calls[t1].event_id

\* The user has a row among the attendees of the event.
Joined(e, u) == \E a \in attendees : a.event_id = e /\ a.user_id = u

\* C13: a leave by a principal who has no attendee row for an existing event
\* returns success with the attendees it loaded and writes nothing; a leave on
\* an unknown event id fails with NotFoundError and writes nothing.
C13_LeaveIdempotent ==
    [][/\ \A t \in Calls :
             leave_event(t) /\ ~Joined(calls[t].event_id, calls[t].user_id)
             => /\ calls'[t].pc = "done"
                /\ calls'[t].res = "ok"
                /\ calls'[t].attendees = calls[t].attendees
                /\ EventTablesUnchanged
       /\ \A t \in Calls, user \in Principals, e \in EventIds :
             leave_select(t, user, e)
             => /\ EventTablesUnchanged
                /\ IF e > Len(events)
                      THEN calls'[t].pc = "done" /\ calls'[t].res = "not_found"
                      ELSE /\ calls'[t].pc = "leaving"
                           /\ calls'[t].attendees = AttendeesOf(e)]_allvars

\* A leave of an unknown event has failed with NotFoundError, and a leave of
\* a user without a row has returned the event's attendees, which no leave
\* has ever shortened.
C13_Witness ==
    \E t1 \in Calls, t2 \in Calls :
        /\ calls[t1].pc = "done" /\ calls[t1].op = "leave" /\ calls[t1].res = "not_found"
        /\ calls[t2].pc = "done" /\ calls[t2].op = "leave" /\ calls[t2].res = "ok"
        /\ ~Joined(calls[t2].event_id, calls[t2].user_id)
        /\ calls[t2].attendees = AttendeesOf(calls[t2].event_id)
        /\ calls[t2].attendees # {}
        /\ Cardinality(attendees) = attendee_seq

\* The required-role set in force for an event: its own when it is not
\* empty, the configured one otherwise.
EffectiveRoles(event) ==
    IF event.required_role_ids # << >> THEN event.required_role_ids ELSE event_role_ids

\* The principal's roles in the event's guild, or in the principal's first
\* guild when the event has none.
RolesFor(event, user) ==
    get(user.guild_roles,
        IF event.guild_id # NoGuild THEN event.guild_id ELSE str(user.guild_ids[1]),
        << >>)

Granted(event, user) ==
    \/ EffectiveRoles(event) = << >>
    \/ Range(RolesFor(event, user)) \cap Range(EffectiveRoles(event)) # {}

\* C14: a join to an existing event fails with ForbiddenError exactly when
\* the effective required-role set is not empty and shares no role id with
\* the principal's roles for the event's guild; a refused join writes nothing
\* and inserts no attendee row later, a granted one goes on or returns success.
C14_RoleGate ==
    [][\A t \in Calls, user \in Principals, e \in EventIds :
          join_select(t, user, e) /\ e <= Len(events)
          => /\ EventTablesUnchanged
             /\ IF Granted(events[e], user)
                   THEN \/ calls'[t].pc = "joining"
                        \/ calls'[t].pc = "done" /\ calls'[t].res = "ok"
                   ELSE calls'[t].pc = "done" /\ calls'[t].res = "forbidden"]_allvars

\* A join was refused for the roles of its caller while another principal
\* has a row on that event, whose required-role set is not empty.
C14_Witness ==
    \E t \in Calls :
        /\ calls[t].pc = "done" /\ calls[t].op = "join" /\ calls[t].res = "forbidden"
        /\ EffectiveRoles(events[calls[t].event_id]) # << >>
        /\ ~Joined(calls[t].event_id, calls[t].user_id)
        /\ AttendeesOf(calls[t].event_id) # {}

-----------------------------------------------------------------------------
(* Properties of authentication. *)

Tokens == {i.token : i \in issued}

\* C15: create_event by a principal without the can_create_events capability
\* fails with ForbiddenError and creates no event; every event was created
\* with a minted token whose claims carry the capability.
C15_CreateNeedsCapability ==
    [][\A credentials \in Credentials, roles \in RoleLists :
          post_events(Caller, credentials, roles)
          => /\ get_current_user(credentials, clock).status = "ok"
                /\ ~get_current_user(credentials, clock).user.can_create_events
                => /\ calls'[Caller].pc = "done"
                   /\ calls'[Caller].res = "forbidden"
                   /\ EventTablesUnchanged
             /\ events' # events
                => /\ credentials.scheme = "bearer"
                   /\ credentials.credentials \in Tokens
                   /\ credentials.credentials.claims.can_create_events
                   /\ created_log'[Len(events')].can_create_events]_allvars

\* A call with a minted, valid token that lacks the capability was refused.
C15_Witness ==
    /\ calls[Caller].pc = "done"
    /\ calls[Caller].op = "create"
    /\ calls[Caller].res = "forbidden"
    /\ \E i \in issued :
          /\ ~i.token.claims.can_create_events
          /\ get_current_user(Bearer(i.token), clock).status = "ok"
    /\ events = << >>

\* None of the guild ids the token carries is on the allow-list in force.
Delisted(token) ==
    Range(token.claims.guild_ids) \cap Range(allowed_guild_ids) = {}

Unexpired(token) == decode(token, jwt_secret_key, clock).error = ""

\* C16: once none of the guild ids of a minted, unexpired token is on the
\* allow-list, every call made with it fails with ForbiddenError and writes
\* nothing.
C16_DelistedTokenRefused ==
    [][\A credentials \in Credentials, roles \in RoleLists :
          /\ post_events(Caller, credentials, roles)
          /\ credentials.scheme = "bearer"
          /\ credentials.credentials \in Tokens
          /\ Unexpired(credentials.credentials)
          /\ Delisted(credentials.credentials)
          => /\ calls'[Caller].pc = "done"
             /\ calls'[Caller].res = "forbidden"
             /\ EventTablesUnchanged]_allvars

\* A call with a minted token was refused, and the allow-list in force names
\* none of the token's guilds.
C16_Witness ==
    /\ calls[Caller].pc = "done"
    /\ calls[Caller].op = "create"
    /\ calls[Caller].res = "forbidden"
    /\ calls[Caller].credentials.scheme = "bearer"
    /\ calls[Caller].credentials.credentials \in Tokens
    /\ Unexpired(calls[Caller].credentials.credentials)
    /\ Delisted(calls[Caller].credentials.credentials)

\* C17: the guild ids of every principal get_current_user returns are on the
\* allow-list in force, and the guild id create_event stores on an event is
\* one of the allow-list in force when the event was created.
C17_GuildsAllowListed ==
    /\ \A token \in Tokens :
          get_current_user(Bearer(token), clock).status = "ok"
          => Range(get_current_user(Bearer(token), clock).user.guild_ids)
                \subseteq Range(allowed_guild_ids)
    /\ \A i \in DOMAIN events :
          events[i].guild_id \in {str(g) : g \in Range(created_log[i].allowed)}

\* The login callback mints a token or refuses in this step.
LoginEnds == issued' # issued \/ refused_log' # refused_log

\* What Discord answered, as the claims speak of it: the guild ids, those of
\* them on the allow-list, and the roles fetched for the latter.
UpstreamIds(guilds) == [i \in DOMAIN guilds |-> int(guilds[i])]
Authorized(guilds) ==
    SelectSeq(UpstreamIds(guilds), LAMBDA g : \E a \in Range(allowed_guild_ids) : a = g)
Fetched(guilds, member) == {g \in Range(Authorized(guilds)) : member[g] # Failed}

\* No required-role set is configured, or a role fetched for an authorized
\* guild is in the configured set.
Capable(guilds, member) ==
    \/ event_role_ids = << >>
    \/ \E g \in Fetched(guilds, member) :
          Range(member[g]) \cap Range(event_role_ids) # {}

\* C18: the login callback mints no token when none of the user's guilds is
\* on the allow-list; the token it mints otherwise decodes, at every time
\* before its expiry, to the user's id and name, the roles fetched, the
\* capability flag and the user's guilds restricted to the allow-list.
C18_TokenRoundTrip ==
    [][LoginEnds =>
       \A u \in Members, guilds \in UpstreamGuilds,
          member \in MemberLookups :
          discord_callback(u, guilds, member)
          => IF Authorized(guilds) = << >>
                THEN issued' = issued
                ELSE \E i \in issued' \ issued :
                     /\ issued' = issued \cup {i}
                     /\ i.iat = clock
                     /\ \A now \in 0..MaxClock :
                           now < i.iat + expires_delta
                           => LET decoded == decode(i.token, jwt_secret_key, now)
                              IN  /\ decoded.error = ""
                                  /\ decoded.payload.sub = u
                                  /\ decoded.payload.username = discord_user(u).username
                                  /\ decoded.payload.discriminator
                                        = discord_user(u).discriminator
                                  /\ decoded.payload.guild_ids = Authorized(guilds)
                                  /\ DOMAIN decoded.payload.guild_roles
                                        = {str(g) : g \in Fetched(guilds, member)}
                                  /\ \A g \in Fetched(guilds, member) :
                                        decoded.payload.guild_roles[str(g)] = member[g]
                                  /\ decoded.payload.can_create_events
                                        <=> Capable(guilds, member)]_allvars

\* A login was refused, a later one minted a token for one guild of the two
\* the user is in, and GET /auth/me with it answered with the token's subject.
C18_Witness ==
    /\ refused_log # {}
    /\ \E i \in issued :
          /\ Len(i.token.claims.guild_ids) = 1
          /\ calls[Caller].pc = "done"
          /\ calls[Caller].op = "me"
          /\ calls[Caller].res = "ok"
          /\ calls[Caller].credentials = Bearer(i.token)
          /\ calls[Caller].user_id = i.token.claims.sub

\* C19: a token minted at time t authenticates at time t' only if t' is
\* before t plus the configured lifetime; from the expiry on, every call with
\* it fails with UnauthenticatedError.
C19_ExpiryEnforced ==
    \A i \in issued :
        clock >= i.iat + expires_delta
        => get_current_user(Bearer(i.token), clock).status = "unauthenticated"

\* C20: the token minted at login carries can_create_events exactly when no
\* required-role set is configured or a role fetched for one of the user's
\* authorized guilds is in the configured set.
C20_CapabilityAtLogin ==
    [][LoginEnds =>
       \A u \in Members, guilds \in UpstreamGuilds,
          member \in MemberLookups :
          discord_callback(u, guilds, member)
          => \A i \in issued' \ issued :
                i.token.claims.can_create_events <=> Capable(guilds, member)]_allvars

\* A token was minted without the capability, for a user with roles fetched.
C20_Witness ==
    \E i \in issued :
        /\ ~i.token.claims.can_create_events
        /\ DOMAIN i.token.claims.guild_roles # {}

\* The answers of Discord with a failed lookup read as a member without roles.
NoRolesWhereFailed(member) ==
    [g \in DOMAIN member |-> IF member[g] = Failed THEN << >> ELSE member[g]]

\* The events a role gate can be asked about.
GatedEvents ==
    {[created_by |-> "u1", guild_id |-> g, required_role_ids |-> r] :
        g \in {NoGuild, "1", "2"}, r \in RoleLists}

\* The guild whose roles the gate of an event reads for a user.
GateGuild(event, user) ==
    IF event.guild_id # NoGuild THEN event.guild_id ELSE str(user.guild_ids[1])

-----------------------------------------------------------------------------
(* Properties of the list endpoints. *)

\* The list call in flight is answered in this step.
Lists(o) == listed = NotListed /\ listed'.op = o

\* C22: the response of list_requests holds every craft request once, as it
\* is stored; every request in status open comes before every request in
\* another status; and of two requests in one status the one created later
\* comes first.
C22_OpenFirstNewestFirst ==
    [][Lists("requests") =>
       LET records == listed'.rows IN
       /\ Len(records) = Len(request_rows)
       /\ \A id \in DOMAIN request_rows :
             \E i \in DOMAIN records : records[i] = [id |-> id] @@ request_rows[id]
       /\ \A i, j \in DOMAIN records :
             i < j /\ records[j].status = "open" => records[i].status = "open"
       /\ \A i, j \in DOMAIN records :
             i < j /\ records[i].status = records[j].status
             => records[i].created_at >= records[j].created_at]_allvars

\* C23: the response of list_alerts at time now with lead L holds exactly
\* the events whose start time s has now <= s <= now + L, each once and with
\* its start time, in ascending order of start time.
C23_AlertWindow ==
    [][Lists("alerts") =>
       LET records == listed'.rows
           now == clock
           L == minutes(alert_lead_minutes)
           due == {id \in DOMAIN event_rows :
                      now <= event_rows[id].start_at
                      /\ event_rows[id].start_at <= now + L}
       IN
       /\ {records[i].event_id : i \in DOMAIN records} = due
       /\ Len(records) = Cardinality(due)
       /\ \A i \in DOMAIN records :
             records[i].start_at = event_rows[records[i].event_id].start_at
       /\ \A i, j \in DOMAIN records :
             i < j => records[i].start_at <= records[j].start_at]_allvars

\* An alert list holds an event that starts at the moment of the call and,
\* after it, one that starts at the end of the window, and leaves out an
\* event that has started.
C23_Witness ==
    /\ listed.op = "alerts"
    /\ Len(listed.rows) = 2
    /\ listed.rows[1].start_at = clock
    /\ listed.rows[2].start_at = clock + minutes(alert_lead_minutes)
    /\ alert_lead_minutes > 0
    /\ \E id \in DOMAIN event_rows : event_rows[id].start_at < clock

-----------------------------------------------------------------------------
(* Termination of the crafting calls. *)

\* The next step of the call of task t.
Progress(t) ==
    /\ \/ accept_select(t)
       \/ \E u \in Users, l \in Locations, e \in {NoEst} \cup Times :
             accept_request(t, u, l, e)
       \/ select_request(t)
       \/ load_assignment(t)
       \/ \E u \in Users, n \in Times : complete_request(t, u, n)
       \/ \E u \in Users : cancel_request(t, u)
    /\ UNCHANGED <<evars, qvars>>

\* The event loop resumes every call whose statement has been answered, and
\* PostgreSQL queues the transactions that wait for a row lock, so a call
\* that can take its step again and again does take it.
Fairness == \A t \in Tasks : SF_allvars(Progress(t))

\* The calls on /crafting by a requester and a crafter, with a blank or a
\* non-blank location and no estimated completion.
Parties == {"u1", "u2"}
Places == {<< >>, <<Space, "T">>}
Instant == CHOOSE n \in Times : \A m \in Times : n <= m

FairNext ==
    \/ create_request("u1") /\ UNCHANGED <<evars, qvars>>
    \/ (\E t \in Tasks, o \in Ops, r \in RequestIds : Invoke(t, o, r))
          /\ UNCHANGED <<evars, qvars>>
    \/ (\E t \in Tasks : accept_select(t)) /\ UNCHANGED <<evars, qvars>>
    \/ (\E t \in Tasks, u \in Parties, l \in Places : accept_request(t, u, l, NoEst))
          /\ UNCHANGED <<evars, qvars>>
    \/ (\E t \in Tasks : select_request(t)) /\ UNCHANGED <<evars, qvars>>
    \/ (\E t \in Tasks : load_assignment(t)) /\ UNCHANGED <<evars, qvars>>
    \/ (\E t \in Tasks, u \in Parties : complete_request(t, u, Instant))
          /\ UNCHANGED <<evars, qvars>>
    \/ (\E t \in Tasks, u \in Parties : cancel_request(t, u))
          /\ UNCHANGED <<evars, qvars>>
    \/ (\E t \in Tasks : Return(t)) /\ UNCHANGED <<evars, qvars>>

FairSpec == CraftingInit /\ [][FairNext]_allvars /\ Fairness

\* C24: every accept call that has started returns success, not found,
\* conflict or validation error, whatever accept, complete and cancel calls
\* run with it; and a row lock that is held is released.
C24_AcceptReturns ==
    /\ \A t \in Tasks :
          (tasks[t].pc \in {"start", "locked"} /\ tasks[t].op = "accept")
          ~> (/\ tasks[t].pc = "done"
              /\ tasks[t].res \in {"ok", "not_found", "conflict", "validation"})
    /\ \A r \in RequestIds : (lock[r] # NoTask) ~> (lock[r] = NoTask)

\* An accept call has returned a conflict after a cancel call committed
\* while it was in flight, and no row is locked.
C24_Witness ==
    \E t1 \in Tasks, t2 \in Tasks :
        /\ tasks[t1].pc = "done" /\ tasks[t1].op = "accept"
        /\ tasks[t1].res = "conflict" /\ tasks[t1].open0
        /\ t2 \in tasks[t1].intf
        /\ tasks[t2].pc = "done" /\ tasks[t2].op = "cancel"
        /\ \A r \in RequestIds : lock[r] = NoTask

\* Task t reads the status of its request in this step of an accept call.
ReadsStatus(t) ==
    tasks[t].op = "accept" /\ tasks[t].pc = "start" /\ tasks'[t].pc = "locked"

\* Task t is between its read of the status and its return.
Checking(t) == tasks[t].op = "accept" /\ tasks[t].pc = "locked"

\* C25: an accept call reads the status of its request in the step that
\* gives it the row lock, the lock being free before; it holds the lock from
\* then on until the step in which it returns, which is the step that
\* commits the assignment and the status accepted when it succeeds; so no
\* other accept call reads the status of that request in between.
C25_LockSpansCheckAndWrite ==
    [][\A t \in Tasks :
         LET r == tasks[t].rid IN
         /\ ReadsStatus(t)
            => /\ lock[r] = NoTask
               /\ lock'[r] = t
               /\ tasks'[t].st = requests[r].status
         /\ Checking(t) => lock[r] = t
         /\ Checking(t) /\ lock'[r] # t
            => /\ Ends(t)
               /\ lock'[r] = NoTask
               /\ tasks'[t].res = "ok"
                  <=> /\ requests[r].status = "open"
                      /\ requests'[r].status = "accepted"
                      /\ \E a \in Inserted : a.request_id = r
         /\ Checking(t)
            => \A o \in Tasks \ {t} : ~(ReadsStatus(o) /\ tasks[o].rid = r)
      ]_allvars

\* An accept call holds the lock of an open request it has read while
\* another accept call of that request waits to read it.
C25_Witness ==
    \E t1 \in Tasks, t2 \in Tasks :
        /\ t1 # t2
        /\ tasks[t1].op = "accept" /\ tasks[t1].pc = "locked"
        /\ tasks[t1].st = "open"
        /\ tasks[t2].op = "accept" /\ tasks[t2].pc = "start"
        /\ tasks[t2].rid = tasks[t1].rid
        /\ lock[tasks[t1].rid] = t1

-----------------------------------------------------------------------------
(* Properties of the whole service. *)

\* No row of the four tables changes in this step.
RecordsUnchanged ==
    /\ requests' = requests
    /\ assignments' = assignments
    /\ events' = events
    /\ attendees' = attendees

\* A crafting call, or an events call, returns an error in this step.
CraftingFails == \E t \in Tasks : Ends(t) /\ tasks'[t].res # "ok"
EventsFails == \E t \in Calls : Responds(t) /\ calls'[t].res # "ok"

\* C26: the step in which a crafting or events call returns an error (not
\* found, conflict, validation, forbidden, unauthenticated) changes no row of
\* requests, assignments, events or attendees, and neither does any earlier
\* step of a call: rows change only in the step in which a call succeeds.
C26_ErrorsChangeNothing ==
    [][/\ CraftingFails \/ EventsFails => RecordsUnchanged
       /\ ~RecordsUnchanged
          => \/ \E t \in Tasks : Ends(t) /\ tasks'[t].res = "ok"
             \/ \E t \in Calls : Responds(t) /\ calls'[t].res = "ok"
             \/ Len(requests') = Len(requests) + 1]_allvars

\* A cancel call by a user who is neither the requester nor the crafter of an
\* accepted request has returned forbidden, and the request and its
\* assignment are still accepted.
C26_Witness ==
    \E t \in Tasks :
        /\ tasks[t].pc = "done" /\ tasks[t].op = "cancel"
        /\ tasks[t].res = "forbidden"
        /\ tasks[t].intf = {}
        /\ requests[tasks[t].rid].status = "accepted"
        /\ \E a \in AssignmentsOf(tasks[t].rid) :
              a.status = "accepted" /\ a.crafter_id # tasks[t].user

-----------------------------------------------------------------------------
(* Frame properties. *)

\* The attendee rows that are not those of user u for event e.
OthersRows(rows, e, u) == {a \in rows : ~(a.event_id = e /\ a.user_id = u)}

\* C27: when a leave call of a principal for an event returns successfully,
\* the principal has no attendee row for that event, and the rows of the
\* other principals and of the other events are those of before the step,
\* whatever join and leave calls came before or run with it.
C27_LeaveRemovesCaller ==
    [][\A t \in Calls :
          Responds(t) /\ calls'[t].op = "leave" /\ calls'[t].res = "ok"
          => LET e == calls'[t].event_id
                 p == calls'[t].user_id
             IN  /\ ~\E a \in attendees' : a.event_id = e /\ a.user_id = p
                 /\ OthersRows(attendees', e, p) = OthersRows(attendees, e, p)
      ]_allvars

\* Two requests are stored and open when the calls start; the callers are
\* the two requesters, either of whom can be the crafter of the other.
MaxStored == 2
Stored == 1..MaxStored

FrameInit ==
    /\ requests = [r \in Stored |->
                      [requester_id |-> IF r = 1 THEN "u1" ELSE "u2", status |-> "open"]]
    /\ assignments = {}
    /\ lock = [r \in Stored |-> NoTask]
    /\ tasks = [t \in Tasks |-> IdleTask]
    /\ accepted_log = {}
    /\ unclaimed_log = {}
    /\ settings = Unconfigured /\ AuthIdle /\ EventsIdle /\ QueriesIdle

FrameNext ==
    \/ (\E t \in Tasks, o \in Ops, r \in Stored : Invoke(t, o, r))
          /\ UNCHANGED <<evars, qvars>>
    \/ (\E t \in Tasks : accept_select(t)) /\ UNCHANGED <<evars, qvars>>
    \/ (\E t \in Tasks, u \in Parties : accept_request(t, u, <<Space, "T">>, NoEst))
          /\ UNCHANGED <<evars, qvars>>
    \/ (\E t \in Tasks : select_request(t)) /\ UNCHANGED <<evars, qvars>>
    \/ (\E t \in Tasks : load_assignment(t)) /\ UNCHANGED <<evars, qvars>>
    \/ (\E t \in Tasks, u \in Parties : complete_request(t, u, Instant))
          /\ UNCHANGED <<evars, qvars>>
    \/ (\E t \in Tasks, u \in Parties : cancel_request(t, u))
          /\ UNCHANGED <<evars, qvars>>
    \/ (\E t \in Tasks : Return(t)) /\ UNCHANGED <<evars, qvars>>

FrameSpec == FrameInit /\ [][FrameNext]_allvars

\* The row of assignments' with the id of row a.
After(a) == CHOOSE b \in assignments' : b.id = a.id

====
